---------------------------- MODULE Spec2Model ----------------------------
(***************************************************************************)
(* Resource scanner of SublimeGo: source walk, declaration extraction,     *)
(* conflict detection and template-data building.                          *)
(*                                                                         *)
(* Strings are sequences of one-character strings, so that suffix tests,   *)
(* lower-casing and formatting are computed character by character.        *)
(* Timestamps and durations (time.Now) are left out of the records.        *)
(***************************************************************************)
EXTENDS Integers, Sequences, FiniteSets, TLC

VARIABLES
    tree,         \* the file tree under ResourcesPath, in filepath.Walk order
    config,       \* ScannerConfig of the Scanner
    pc,           \* position of the pipeline
    idx,          \* index of the next entry filepath.Walk hands to the callback
    allMetadata,  \* Scan's local allMetadata
    walkErr,      \* the error filepath.Walk returned ("" when nil)
    result,       \* the ScanResult returned by Scan
    data,         \* the TemplateData returned by BuildTemplateData
    genResult,    \* the GenerationResult of the generator
    written,      \* TRUE when the file at OutputPath has been created or modified
    prev,         \* outcomes of the earlier runs over the same tree
    slugIn,       \* argument of extractSlug (pure-function specification)
    slugOut,      \* value returned by extractSlug
    parsed,       \* indices of the entries handed to parser.ParseFile by this Scan
    aliasOut,     \* resource and value of a call of Detector.generateAlias
    detects,      \* number of calls of Detector.Detect made by this Scan
    loopCounter   \* counter of the suffix loop of Detector.generateAlias

vars == <<tree, config, pc, idx, allMetadata, walkErr, result, data,
          genResult, written, prev, slugIn, slugOut, parsed, aliasOut,
          detects, loopCounter>>

---------------------------------------------------------------------------
(* Bounds *)

MaxFiles == 2       \* entries of the walked tree
MaxRuns == 2        \* runs of the pipeline over the unchanged tree
MaxNameLen == 3     \* length of the stem of a type name given to extractSlug
MaxResources == 3   \* resources of the set given to Detector.generateAlias
MaxConflicts == 2   \* conflicts of a ScanResult given to BuildTemplateData

---------------------------------------------------------------------------
(* Strings *)

UpperToLower ==
    [A |-> "a", B |-> "b", C |-> "c", D |-> "d", E |-> "e", F |-> "f",
     G |-> "g", H |-> "h", I |-> "i", J |-> "j", K |-> "k", L |-> "l",
     M |-> "m", N |-> "n", O |-> "o", P |-> "p", Q |-> "q", R |-> "r",
     S |-> "s", T |-> "t", U |-> "u", V |-> "v", W |-> "w", X |-> "x",
     Y |-> "y", Z |-> "z"]

LowerToUpper ==
    [a |-> "A", b |-> "B", c |-> "C", d |-> "D", e |-> "E", f |-> "F",
     g |-> "G", h |-> "H", i |-> "I", j |-> "J", k |-> "K", l |-> "L",
     m |-> "M", n |-> "N", o |-> "O", p |-> "P", q |-> "Q", r |-> "R",
     s |-> "S", t |-> "T", u |-> "U", v |-> "V", w |-> "W", x |-> "X",
     y |-> "Y", z |-> "Z"]

LowerChar(c) == IF c \in DOMAIN UpperToLower THEN UpperToLower[c] ELSE c

UpperChar(c) == IF c \in DOMAIN LowerToUpper THEN LowerToUpper[c] ELSE c

\* strings.ToLower
ToLower(s) == [i \in 1..Len(s) |-> LowerChar(s[i])]

\* strings.HasSuffix
HasSuffix(s, suffix) ==
    /\ Len(s) >= Len(suffix)
    /\ SubSeq(s, Len(s) - Len(suffix) + 1, Len(s)) = suffix

\* strings.TrimSuffix
TrimSuffix(s, suffix) ==
    IF HasSuffix(s, suffix) THEN SubSeq(s, 1, Len(s) - Len(suffix)) ELSE s

\* cases.Title(language.English).String on a single word of letters and
\* digits: the first letter in upper case, the rest in lower case
TitleCase(s) ==
    [i \in 1..Len(s) |-> IF i = 1 THEN UpperChar(s[i]) ELSE LowerChar(s[i])]

Digits == <<"0", "1", "2", "3", "4", "5", "6", "7", "8", "9">>

\* fmt's %d of a natural number
RECURSIVE Itoa(_)
Itoa(n) ==
    IF n < 10 THEN <<Digits[n + 1]>>
    ELSE Itoa(n \div 10) \o <<Digits[(n % 10) + 1]>>

\* filepath.Base of a non-empty slash-separated path without trailing slash
RECURSIVE Base(_)
Base(path) ==
    IF \E i \in 1..Len(path) : path[i] = "/"
    THEN Base(Tail(path))
    ELSE path

\* filepath.Match for patterns made of literal characters and "*", which
\* matches any sequence of characters other than the separator
RECURSIVE Match(_, _)
Match(pattern, name) ==
    IF pattern = <<>> THEN name = <<>>
    ELSE IF Head(pattern) = "*"
         THEN \E k \in 0..Len(name) :
                 /\ \A i \in 1..k : name[i] # "/"
                 /\ Match(Tail(pattern), SubSeq(name, k + 1, Len(name)))
         ELSE /\ name # <<>>
              /\ Head(name) = Head(pattern)
              /\ Match(Tail(pattern), Tail(name))

SuffixResource == <<"R", "e", "s", "o", "u", "r", "c", "e">>

SuffixGo == <<".", "g", "o">>

\* the genericNames literal of isPotentialResource and detectGenericNames
genericNames ==
    << SuffixResource,
       <<"E", "n", "t", "i", "t", "y">>,
       <<"M", "o", "d", "e", "l">>,
       <<"I", "t", "e", "m">>,
       <<"O", "b", "j", "e", "c", "t">> >>

\* lo.Contains
Contains(seq, x) == \E i \in 1..Len(seq) : seq[i] = x

\* lo.Uniq: the first occurrence of every element, in order
Uniq(seq) ==
    LET keep == {i \in 1..Len(seq) : \A j \in 1..(i - 1) : seq[j] # seq[i]}
        F[i \in 0..Len(seq)] ==
            IF i = 0 THEN <<>>
            ELSE IF i \in keep THEN Append(F[i - 1], seq[i]) ELSE F[i - 1]
    IN F[Len(seq)]

\* the sequences that list every element of S exactly once: the orders in
\* which a Go range statement may visit the keys of a map
Orders(S) ==
    {o \in [1..Cardinality(S) -> S] : \A x \in S : \E i \in DOMAIN o : o[i] = x}

\* the concatenation of the sequences of a sequence
Flatten(seqs) ==
    LET F[i \in 0..Len(seqs)] ==
            IF i = 0 THEN <<>> ELSE F[i - 1] \o seqs[i]
    IN F[Len(seqs)]

---------------------------------------------------------------------------
(* Declaration extractor *)

\* Scanner.isPotentialResource
isPotentialResource(typeName) ==
    IF HasSuffix(typeName, SuffixResource) THEN TRUE
    ELSE IF Contains(genericNames, typeName) THEN TRUE
    ELSE TRUE

\* extractSlug with the plural rules tested before lower-casing
extractSlugOnName(typeName) ==
    LET name == TrimSuffix(typeName, SuffixResource)
        slug == ToLower(name)
    IN  IF HasSuffix(name, <<"y">>)
        THEN SubSeq(slug, 1, Len(slug) - 1) \o <<"i", "e", "s">>
        ELSE IF HasSuffix(name, <<"s">>)
        THEN slug
        ELSE IF \/ HasSuffix(name, <<"x">>)
                \/ HasSuffix(name, <<"c", "h">>)
                \/ HasSuffix(name, <<"s", "h">>)
        THEN slug \o <<"e", "s">>
        ELSE slug \o <<"s">>

\* extractSlug appending es to a name that ends in s
extractSlugEsAfterS(typeName) ==
    LET name == TrimSuffix(typeName, SuffixResource)
        slug == ToLower(name)
    IN  IF HasSuffix(slug, <<"y">>)
        THEN SubSeq(slug, 1, Len(slug) - 1) \o <<"i", "e", "s">>
        ELSE IF \/ HasSuffix(slug, <<"s">>)
                \/ HasSuffix(slug, <<"x">>)
                \/ HasSuffix(slug, <<"c", "h">>)
                \/ HasSuffix(slug, <<"s", "h">>)
        THEN slug \o <<"e", "s">>
        ELSE slug \o <<"s">>

\* Scanner.extractSlug
extractSlug(typeName) ==
    LET name == TrimSuffix(typeName, SuffixResource)
        slug == ToLower(name)
    IN  IF HasSuffix(slug, <<"y">>)
        THEN SubSeq(slug, 1, Len(slug) - 1) \o <<"i", "e", "s">>
        ELSE IF HasSuffix(slug, <<"s">>)
        THEN slug
        ELSE IF \/ HasSuffix(slug, <<"x">>)
                \/ HasSuffix(slug, <<"c", "h">>)
                \/ HasSuffix(slug, <<"s", "h">>)
        THEN slug \o <<"e", "s">>
        ELSE slug \o <<"s">>

\* ResourceMetadata
ResourceMetadata(typeName, packageName, filePath, slug) ==
    [TypeName |-> typeName, PackageName |-> packageName,
     FilePath |-> filePath, Slug |-> slug]

\* Scanner.scanFile on a file that parses: one record per type declaration
\* accepted by isPotentialResource, in declaration order
scanFile(filePath, file) ==
    LET decls == file.decls
        F[i \in 0..Len(decls)] ==
            IF i = 0 THEN <<>>
            ELSE IF decls[i].Tok # "type" THEN F[i - 1]
            ELSE IF isPotentialResource(decls[i].Name)
                 THEN Append(F[i - 1],
                             ResourceMetadata(decls[i].Name, file.pkg, filePath,
                                              extractSlug(decls[i].Name)))
                 ELSE F[i - 1]
    IN F[Len(decls)]

---------------------------------------------------------------------------
(* Conflict detector *)

ConflictDuplicateName == 1
ConflictGenericName == 2
ConflictNamingConvention == 3
ConflictPackageConflict == 4

\* GroupBy listing the elements of every key in reverse input order
GroupByReversed(resources, field) ==
    [k \in {resources[i][field] : i \in 1..Len(resources)} |->
        LET group == SelectSeq(resources, LAMBDA r : r[field] = k)
        IN  [i \in 1..Len(group) |-> group[Len(group) + 1 - i]]]

\* lo.GroupBy: the elements of every key, in input order
GroupBy(resources, field) ==
    [k \in {resources[i][field] : i \in 1..Len(resources)} |->
        SelectSeq(resources, LAMBDA r : r[field] = k)]

\* BaseAlias without the lower-casing of the type name
BaseAliasNoLower(r) == r.PackageName \o <<"_">> \o r.TypeName

\* the Sprintf("%s_%s", r.PackageName, strings.ToLower(r.TypeName)) of
\* Detector.generateAlias, Detector.isAliasUnique and Scanner.generateAlias
BaseAlias(r) == r.PackageName \o <<"_">> \o ToLower(r.TypeName)

\* Detector.isAliasUnique
DetectorIsAliasUnique(resources, alias, exclude) ==
    \A i \in 1..Len(resources) :
        \/ /\ resources[i].PackageName = exclude.PackageName
           /\ resources[i].TypeName = exclude.TypeName
        \/ BaseAlias(resources[i]) # alias

\* the for loop of Detector.generateAlias, entered with counter
RECURSIVE DetectorAliasLoop(_, _, _, _)
DetectorAliasLoop(resources, alias, resource, counter) ==
    LET candidate == alias \o <<"_">> \o Itoa(counter)
    IN  IF DetectorIsAliasUnique(resources, candidate, resource)
        THEN candidate
        ELSE DetectorAliasLoop(resources, alias, resource, counter + 1)

\* Detector.generateAlias
DetectorGenerateAlias(resources, resource) ==
    LET alias == BaseAlias(resource)
    IN  IF DetectorIsAliasUnique(resources, alias, resource)
        THEN alias
        ELSE DetectorAliasLoop(resources, alias, resource, 1)

\* detectDuplicateNames emitting only for groups of more than two
detectDuplicateNamesOverTwo(resources, order) ==
    LET grouped == GroupBy(resources, "TypeName")
        Emit(typeName) ==
            LET group == grouped[typeName]
            IN  IF Len(group) > 2
                THEN << [Type |-> ConflictDuplicateName,
                         Severity |-> "error",
                         Message |-> <<"Duplicate type name '%s' found in %d packages",
                                       typeName, Len(group)>>,
                         Suggestion |->
                            <<"Rename types to be unique across all packages",
                              "\nAuto-fix aliases: %s",
                              [i \in 1..Len(group) |->
                                  <<group[i].PackageName, group[i].TypeName,
                                    DetectorGenerateAlias(resources, group[i]),
                                    group[i].TypeName>>]>>,
                         Resources |-> group,
                         AutoFix |-> TRUE] >>
                ELSE <<>>
    IN  Flatten([i \in 1..Len(order) |-> Emit(order[i])])

\* Detector.detectDuplicateNames; order is the order in which the range
\* statement visits the keys of grouped
detectDuplicateNames(resources, order) ==
    LET grouped == GroupBy(resources, "TypeName")
        Emit(typeName) ==
            LET group == grouped[typeName]
            IN  IF Len(group) > 1
                THEN << [Type |-> ConflictDuplicateName,
                         Severity |-> "error",
                         Message |-> <<"Duplicate type name '%s' found in %d packages",
                                       typeName, Len(group)>>,
                         Suggestion |->
                            <<"Rename types to be unique across all packages",
                              "\nAuto-fix aliases: %s",
                              [i \in 1..Len(group) |->
                                  <<group[i].PackageName, group[i].TypeName,
                                    DetectorGenerateAlias(resources, group[i]),
                                    group[i].TypeName>>]>>,
                         Resources |-> group,
                         AutoFix |-> TRUE] >>
                ELSE <<>>
    IN  Flatten([i \in 1..Len(order) |-> Emit(order[i])])

\* Detector.detectGenericNames
detectGenericNames(resources) ==
    LET Emit(resource) ==
            IF Contains(genericNames, resource.TypeName)
            THEN << [Type |-> ConflictGenericName,
                     Severity |-> "warning",
                     Message |-> <<"Generic type name '%s' should be more specific",
                                   resource.TypeName>>,
                     Suggestion |-> <<"Rename '%s' to '%s%s'", resource.TypeName,
                                      TitleCase(resource.PackageName),
                                      resource.TypeName>>,
                     Resources |-> <<resource>>,
                     AutoFix |-> TRUE] >>
            ELSE <<>>
    IN  Flatten([i \in 1..Len(resources) |-> Emit(resources[i])])

\* Detector.detectNamingConventions
detectNamingConventions(resources) ==
    LET Emit(resource) ==
            LET expectedName == TitleCase(resource.PackageName) \o SuffixResource
            IN  IF resource.TypeName # expectedName
                THEN << [Type |-> ConflictNamingConvention,
                         Severity |-> "info",
                         Message |-> <<"Type '%s' doesn't follow naming convention",
                                       resource.TypeName>>,
                         Suggestion |-> <<"Consider renaming to '%s' for consistency",
                                          expectedName>>,
                         Resources |-> <<resource>>,
                         AutoFix |-> FALSE] >>
                ELSE <<>>
    IN  Flatten([i \in 1..Len(resources) |-> Emit(resources[i])])

\* detectPackageConflicts emitting for every package of more than one resource
detectPackageConflictsAnyGroup(resources, order) ==
    LET grouped == GroupBy(resources, "PackageName")
        Emit(pkgName) ==
            LET group == grouped[pkgName]
            IN  IF Len(group) > 1
                THEN << [Type |-> ConflictPackageConflict,
                         Severity |-> "error",
                         Message |-> <<"Multiple resources with same name in package '%s'",
                                       pkgName>>,
                         Suggestion |-> <<"Rename resources to be unique within their package">>,
                         Resources |-> group,
                         AutoFix |-> FALSE] >>
                ELSE <<>>
    IN  Flatten([i \in 1..Len(order) |-> Emit(order[i])])

\* Detector.detectPackageConflicts; order is the order in which the range
\* statement visits the keys of grouped
detectPackageConflicts(resources, order) ==
    LET grouped == GroupBy(resources, "PackageName")
        Emit(pkgName) ==
            LET group == grouped[pkgName]
                typeNames == [i \in 1..Len(group) |-> group[i].TypeName]
            IN  IF Len(group) > 1 /\ Len(Uniq(typeNames)) # Len(typeNames)
                THEN << [Type |-> ConflictPackageConflict,
                         Severity |-> "error",
                         Message |-> <<"Multiple resources with same name in package '%s'",
                                       pkgName>>,
                         Suggestion |-> <<"Rename resources to be unique within their package">>,
                         Resources |-> group,
                         AutoFix |-> FALSE] >>
                ELSE <<>>
    IN  Flatten([i \in 1..Len(order) |-> Emit(order[i])])

\* Detect running the package pass before the naming-convention pass
DetectPackageBeforeNaming(resources, typeOrder, pkgOrder) ==
    detectDuplicateNames(resources, typeOrder)
        \o detectGenericNames(resources)
        \o detectPackageConflicts(resources, pkgOrder)
        \o detectNamingConventions(resources)

\* Detector.Detect
Detect(resources, typeOrder, pkgOrder) ==
    detectDuplicateNames(resources, typeOrder)
        \o detectGenericNames(resources)
        \o detectNamingConventions(resources)
        \o detectPackageConflicts(resources, pkgOrder)

\* HasErrors counting warnings as blocking
HasErrorsOrWarnings(conflicts) ==
    \E i \in 1..Len(conflicts) : conflicts[i].Severity \in {"error", "warning"}

\* Detector.HasErrors
HasErrors(conflicts) ==
    \E i \in 1..Len(conflicts) : conflicts[i].Severity = "error"

---------------------------------------------------------------------------
(* Template data builder *)

\* Scanner.isAliasUnique
ScannerIsAliasUnique(alias, exclude) == TRUE

\* the for loop of Scanner.generateAlias, entered with counter
RECURSIVE ScannerAliasLoop(_, _, _)
ScannerAliasLoop(alias, resource, counter) ==
    LET candidate == alias \o <<"_">> \o Itoa(counter)
    IN  IF ScannerIsAliasUnique(candidate, resource)
        THEN candidate
        ELSE ScannerAliasLoop(alias, resource, counter + 1)

\* Scanner.generateAlias
ScannerGenerateAlias(resource) ==
    LET alias == BaseAlias(resource)
    IN  IF ScannerIsAliasUnique(alias, resource)
        THEN alias
        ELSE ScannerAliasLoop(alias, resource, 1)

\* the assignment m[k] = v of a Go map
MapPut(m, k, v) == [x \in (DOMAIN m) \cup {k} |-> IF x = k THEN v ELSE m[x]]

\* the lookup v, ok := m[k] of a Go map of strings
MapGet(m, k) == IF k \in DOMAIN m THEN m[k] ELSE <<>>

\* AliasedResources taking every conflict with AutoFix=true, of any type
AliasedResourcesAnyType(conflicts) ==
    Flatten([i \in 1..Len(conflicts) |->
                IF conflicts[i].AutoFix
                THEN conflicts[i].Resources
                ELSE <<>>])

\* the resources of the conflicts that feed the alias maps of buildImports and
\* buildResources, in the order the two nested loops visit them
AliasedResources(conflicts) ==
    Flatten([i \in 1..Len(conflicts) |->
                IF conflicts[i].Type = ConflictDuplicateName /\ conflicts[i].AutoFix
                THEN conflicts[i].Resources
                ELSE <<>>])

\* the key of the alias map of buildResources
ResourceKey(resource) == resource.PackageName \o <<".">> \o resource.TypeName

\* the aliasMap of buildImports, keyed by package name
ImportAliasMap(conflicts) ==
    LET entries == AliasedResources(conflicts)
        F[i \in 0..Len(entries)] ==
            IF i = 0 THEN << >>
            ELSE MapPut(F[i - 1], entries[i].PackageName,
                        ScannerGenerateAlias(entries[i]))
    IN F[Len(entries)]

\* the aliasMap of buildResources, keyed by "package.Type"
ResourceAliasMap(conflicts) ==
    LET entries == AliasedResources(conflicts)
        F[i \in 0..Len(entries)] ==
            IF i = 0 THEN << >>
            ELSE MapPut(F[i - 1], ResourceKey(entries[i]),
                        ScannerGenerateAlias(entries[i]))
    IN F[Len(entries)]

\* UniqByPath keeping every import
UniqByPathKeepAll(imports) == imports

\* lo.UniqBy on the Path of ImportInfo: the first import of every path
UniqByPath(imports) ==
    LET F[i \in 0..Len(imports)] ==
            IF i = 0 THEN <<>>
            ELSE IF \E j \in 1..(i - 1) : imports[j].Path = imports[i].Path
                 THEN F[i - 1]
                 ELSE Append(F[i - 1], imports[i])
    IN F[Len(imports)]

\* Scanner.buildImports
buildImports(resources, conflicts) ==
    LET aliasMap == ImportAliasMap(conflicts)
        imports ==
            [i \in 1..Len(resources) |->
                [Path |-> <<"github.com/bozz33/SublimeGo/internal/resources/">>
                              \o resources[i].PackageName,
                 Alias |-> MapGet(aliasMap, resources[i].PackageName),
                 NeedsAlias |-> resources[i].PackageName \in DOMAIN aliasMap,
                 Package |-> resources[i].PackageName]]
    IN  UniqByPath(imports)

\* buildResources emitting one ResourceInfo per distinct key
buildResourcesPerKey(resources, conflicts) ==
    LET aliasMap == ResourceAliasMap(conflicts)
        firsts == SelectSeq([i \in 1..Len(resources) |-> i],
                            LAMBDA i : \A j \in 1..(i - 1) :
                                ResourceKey(resources[j]) # ResourceKey(resources[i]))
    IN  [n \in 1..Len(firsts) |->
            LET key == ResourceKey(resources[firsts[n]])
                alias == MapGet(aliasMap, key)
                hasConflict == key \in DOMAIN aliasMap
            IN  [Reference |-> IF hasConflict
                               THEN alias \o <<".">> \o resources[firsts[n]].TypeName
                               ELSE resources[firsts[n]].PackageName \o <<".">>
                                        \o resources[firsts[n]].TypeName,
                 Source |-> resources[firsts[n]].FilePath,
                 Alias |-> alias,
                 Conflict |-> hasConflict]]

\* buildResources always qualifying the reference with the package name
buildResourcesLiteralReference(resources, conflicts) ==
    LET aliasMap == ResourceAliasMap(conflicts)
    IN  [i \in 1..Len(resources) |->
            LET key == ResourceKey(resources[i])
                alias == MapGet(aliasMap, key)
                hasConflict == key \in DOMAIN aliasMap
            IN  [Reference |-> resources[i].PackageName \o <<".">>
                                   \o resources[i].TypeName,
                 Source |-> resources[i].FilePath,
                 Alias |-> alias,
                 Conflict |-> hasConflict]]

\* Scanner.buildResources
buildResources(resources, conflicts) ==
    LET aliasMap == ResourceAliasMap(conflicts)
    IN  [i \in 1..Len(resources) |->
            LET key == ResourceKey(resources[i])
                alias == MapGet(aliasMap, key)
                hasConflict == key \in DOMAIN aliasMap
            IN  [Reference |-> IF hasConflict
                               THEN alias \o <<".">> \o resources[i].TypeName
                               ELSE resources[i].PackageName \o <<".">>
                                        \o resources[i].TypeName,
                 Source |-> resources[i].FilePath,
                 Alias |-> alias,
                 Conflict |-> hasConflict]]

\* extractWarnings keeping the conflicts of severity warning only
extractWarningsOnlyWarning(conflicts) ==
    LET F[i \in 0..Len(conflicts)] ==
            IF i = 0 THEN <<>>
            ELSE IF conflicts[i].Severity = "warning"
                 THEN Append(F[i - 1], conflicts[i].Message)
                 ELSE F[i - 1]
    IN F[Len(conflicts)]

\* Scanner.extractWarnings
extractWarnings(conflicts) ==
    LET F[i \in 0..Len(conflicts)] ==
            IF i = 0 THEN <<>>
            ELSE IF conflicts[i].Severity = "warning" \/ conflicts[i].Severity = "info"
                 THEN Append(F[i - 1], conflicts[i].Message)
                 ELSE F[i - 1]
    IN F[Len(conflicts)]

\* the TemplateData returned by Scanner.BuildTemplateData
TemplateDataOf(res) ==
    [Count |-> Len(res.Resources),
     Imports |-> buildImports(res.Resources, res.Conflicts),
     Resources |-> buildResources(res.Resources, res.Conflicts),
     Warnings |-> extractWarnings(res.Conflicts),
     Conflicts |-> res.Conflicts]

---------------------------------------------------------------------------
(* Inputs: the walked tree and the configuration *)

PkgUser == <<"u", "s", "e", "r">>
PkgShop == <<"s", "h", "o", "p">>

UserResource == <<"U", "s", "e", "r">> \o SuffixResource
USERResource == <<"U", "S", "E", "R">> \o SuffixResource
Helper == <<"H", "e", "l", "p", "e", "r">>

TypeDecl(name) == [Tok |-> "type", Name |-> name]
FuncDecl(name) == [Tok |-> "func", Name |-> name]

GoFile(base, pkg, decls) ==
    [base |-> base, isDir |-> FALSE, err |-> FALSE, parseOK |-> TRUE,
     pkg |-> pkg, decls |-> decls]

BaseGo == <<"r", ".", "g", "o">>
BaseTestGo == <<"r", "_", "t", "e", "s", "t", ".", "g", "o">>
BaseGenGo == <<"r", "_", "g", "e", "n", ".", "g", "o">>
BaseTxt == <<"n", ".", "t", "x", "t">>
BaseDirGo == <<"v", ".", "g", "o">>

\* the entries a tree is made of
FilePool ==
    { GoFile(BaseGo, PkgUser, <<TypeDecl(UserResource)>>),
      GoFile(BaseGo, PkgShop, <<TypeDecl(UserResource)>>),
      GoFile(BaseGo, PkgUser, <<TypeDecl(UserResource), TypeDecl(USERResource)>>),
      GoFile(BaseGo, PkgShop, <<TypeDecl(USERResource), TypeDecl(UserResource)>>),
      GoFile(BaseGo, PkgUser, <<TypeDecl(SuffixResource), TypeDecl(UserResource)>>),
      GoFile(BaseGo, PkgShop, <<TypeDecl(UserResource), TypeDecl(SuffixResource)>>),
      GoFile(BaseGo, PkgShop, <<TypeDecl(SuffixResource)>>),
      GoFile(BaseGo, PkgUser, <<FuncDecl(UserResource), TypeDecl(Helper)>>),
      GoFile(BaseGo, PkgUser, <<TypeDecl(UserResource), TypeDecl(UserResource)>>),
      [GoFile(BaseGo, PkgUser, <<>>) EXCEPT !.parseOK = FALSE],
      [GoFile(BaseGo, PkgUser, <<>>) EXCEPT !.err = TRUE],
      [GoFile(BaseDirGo, <<>>, <<>>) EXCEPT !.isDir = TRUE],
      GoFile(BaseTestGo, PkgUser, <<TypeDecl(UserResource)>>),
      GoFile(BaseGenGo, PkgShop, <<TypeDecl(UserResource)>>),
      GoFile(BaseTxt, PkgShop, <<TypeDecl(UserResource)>>) }

\* the directory Walk starts from
RootPath == <<"r", "e", "s">>

RootDir ==
    [base |-> RootPath, isDir |-> TRUE, err |-> FALSE, parseOK |-> FALSE,
     pkg |-> <<>>, decls |-> <<>>]

\* the trees: the root, then up to MaxFiles entries in lexical order
Trees ==
    UNION {{<<RootDir>> \o t : t \in [1..n -> FilePool]} : n \in 0..MaxFiles}

\* the path filepath.Walk hands to the callback for entry i
PathOf(t, i) ==
    IF i = 1 THEN RootPath
    ELSE RootPath \o <<"/">> \o Itoa(i - 1) \o <<"/">> \o t[i].base

\* DefaultConfig().ExcludePatterns
DefaultExcludePatterns ==
    << <<"*", "_", "t", "e", "s", "t", ".", "g", "o">>,
       <<"*", "_", "g", "e", "n", ".", "g", "o">> >>

Configs ==
    [StrictMode : BOOLEAN, DryRun : BOOLEAN,
     ExcludePatterns : {DefaultExcludePatterns}]

NoError == <<>>

NoScanResult ==
    [Success |-> FALSE, Message |-> <<>>, Resources |-> <<>>, Conflicts |-> <<>>]

NoTemplateData ==
    [Count |-> 0, Imports |-> <<>>, Resources |-> <<>>, Warnings |-> <<>>,
     Conflicts |-> <<>>]

NoAlias == [resource |-> 0, alias |-> <<>>]

NoGenerationResult ==
    [Success |-> FALSE, Message |-> <<>>, Rendered |-> FALSE, BytesWritten |-> 0]

---------------------------------------------------------------------------
(* The pipeline *)

Init ==
    /\ tree \in Trees
    /\ config \in Configs
    /\ pc = "walk"
    /\ idx = 1
    /\ allMetadata = <<>>
    /\ walkErr = NoError
    /\ result = NoScanResult
    /\ data = NoTemplateData
    /\ genResult = NoGenerationResult
    /\ written = FALSE
    /\ detects = 0
    /\ loopCounter = 0
    /\ prev = <<>>
    /\ slugIn = <<>>
    /\ slugOut = <<>>
    /\ parsed = <<>>
    /\ aliasOut = NoAlias

\* Excluded matching the patterns against the whole path
ExcludedOnPath(patterns, path) ==
    \E i \in 1..Len(patterns) : Match(patterns[i], path)

\* the exclusion loop of the walk callback
Excluded(patterns, path) ==
    \E i \in 1..Len(patterns) : Match(patterns[i], Base(path))

\* the callback Scan passes to filepath.Walk, called on entry idx; Walk stops
\* at the first error the callback returns
WalkVisit ==
    /\ pc = "walk"
    /\ idx <= Len(tree)
    /\ LET file == tree[idx]
           path == PathOf(tree, idx)
           next == IF idx = Len(tree) THEN "walked" ELSE "walk"
       IN  IF file.err
           THEN /\ walkErr' = <<"%v", path>>
                /\ pc' = "walked"
                /\ UNCHANGED <<idx, allMetadata, parsed>>
           ELSE IF Excluded(config.ExcludePatterns, path)
           THEN /\ idx' = idx + 1
                /\ pc' = next
                /\ UNCHANGED <<walkErr, allMetadata, parsed>>
           ELSE IF ~file.isDir /\ HasSuffix(path, SuffixGo)
           THEN IF ~file.parseOK
                THEN /\ walkErr' = <<"failed to scan %s: %w", path,
                                     "failed to parse file: %w">>
                     /\ pc' = "walked"
                     /\ parsed' = Append(parsed, idx)
                     /\ UNCHANGED <<idx, allMetadata>>
                ELSE /\ allMetadata' = allMetadata \o scanFile(path, file)
                     /\ idx' = idx + 1
                     /\ pc' = next
                     /\ parsed' = Append(parsed, idx)
                     /\ UNCHANGED walkErr
           ELSE /\ idx' = idx + 1
                /\ pc' = next
                /\ UNCHANGED <<walkErr, allMetadata, parsed>>
    /\ UNCHANGED <<tree, config, result, data, genResult, written, prev,
                   slugIn, slugOut, aliasOut,
                   detects, loopCounter>>

\* ScanFail returning the resources gathered before the failure
ScanFailPartial ==
    /\ pc = "walked"
    /\ walkErr # NoError
    /\ result' = [Success |-> FALSE,
                  Message |-> <<"Scan failed: %v", walkErr>>,
                  Resources |-> allMetadata,
                  Conflicts |-> <<>>]
    /\ pc' = "scanned"
    /\ UNCHANGED <<tree, config, idx, allMetadata, walkErr, data, genResult,
                   written, prev, slugIn, slugOut, parsed, aliasOut,
                   detects, loopCounter>>

\* Scan after a failed walk
ScanFail ==
    /\ pc = "walked"
    /\ walkErr # NoError
    /\ result' = [Success |-> FALSE,
                  Message |-> <<"Scan failed: %v", walkErr>>,
                  Resources |-> <<>>,
                  Conflicts |-> <<>>]
    /\ pc' = "scanned"
    /\ UNCHANGED <<tree, config, idx, allMetadata, walkErr, data, genResult,
                   written, prev, slugIn, slugOut, parsed, aliasOut,
                   detects, loopCounter>>

\* ScanResultOf without the strict-mode test
ScanResultOfNeverStrict(cfg, metadata, conflicts) ==
    [Success |-> TRUE,
     Message |-> IF Len(conflicts) > 0
                 THEN <<"Scanned %d resources", Len(metadata),
                        " (%d conflicts detected)", Len(conflicts)>>
                 ELSE <<"Scanned %d resources", Len(metadata)>>,
     Resources |-> metadata,
     Conflicts |-> conflicts]

\* ScanResultOf failing on an error conflict whatever StrictMode is
ScanResultOfAlwaysStrict(cfg, metadata, conflicts) ==
    IF HasErrors(conflicts)
    THEN [Success |-> FALSE,
          Message |-> <<"Strict mode: blocking errors detected">>,
          Resources |-> metadata,
          Conflicts |-> conflicts]
    ELSE [Success |-> TRUE,
          Message |-> IF Len(conflicts) > 0
                      THEN <<"Scanned %d resources", Len(metadata),
                             " (%d conflicts detected)", Len(conflicts)>>
                      ELSE <<"Scanned %d resources", Len(metadata)>>,
          Resources |-> metadata,
          Conflicts |-> conflicts]

\* ScanResultOf returning no resources when strict mode blocks
ScanResultOfStrictNoResources(cfg, metadata, conflicts) ==
    IF HasErrors(conflicts) /\ cfg.StrictMode
    THEN [Success |-> FALSE,
          Message |-> <<"Strict mode: blocking errors detected">>,
          Resources |-> <<>>,
          Conflicts |-> conflicts]
    ELSE [Success |-> TRUE,
          Message |-> IF Len(conflicts) > 0
                      THEN <<"Scanned %d resources", Len(metadata),
                             " (%d conflicts detected)", Len(conflicts)>>
                      ELSE <<"Scanned %d resources", Len(metadata)>>,
          Resources |-> metadata,
          Conflicts |-> conflicts]

\* the ScanResult Scan returns for the conflicts of Detect
ScanResultOf(cfg, metadata, conflicts) ==
    IF HasErrors(conflicts) /\ cfg.StrictMode
    THEN [Success |-> FALSE,
          Message |-> <<"Strict mode: blocking errors detected">>,
          Resources |-> metadata,
          Conflicts |-> conflicts]
    ELSE [Success |-> TRUE,
          Message |-> IF Len(conflicts) > 0
                      THEN <<"Scanned %d resources", Len(metadata),
                             " (%d conflicts detected)", Len(conflicts)>>
                      ELSE <<"Scanned %d resources", Len(metadata)>>,
          Resources |-> metadata,
          Conflicts |-> conflicts]

\* ScanDetect running the detector whether or not the walk failed
ScanDetectAfterFailure ==
    /\ pc = "walked"
    /\ \E typeOrder \in Orders(DOMAIN GroupBy(allMetadata, "TypeName")),
          pkgOrder \in Orders(DOMAIN GroupBy(allMetadata, "PackageName")) :
            result' = ScanResultOf(config, allMetadata,
                                   Detect(allMetadata, typeOrder, pkgOrder))
    /\ detects' = detects + 1
    /\ pc' = "scanned"
    /\ UNCHANGED <<tree, config, idx, allMetadata, walkErr, data, genResult,
                   written, prev, slugIn, slugOut, parsed, aliasOut, loopCounter>>

\* Scan after a successful walk: NewDetector, Detect and the strict-mode
\* decision; the two range statements over maps visit the keys in any order
ScanDetect ==
    /\ pc = "walked"
    /\ walkErr = NoError
    /\ \E typeOrder \in Orders(DOMAIN GroupBy(allMetadata, "TypeName")),
          pkgOrder \in Orders(DOMAIN GroupBy(allMetadata, "PackageName")) :
            result' = ScanResultOf(config, allMetadata,
                                   Detect(allMetadata, typeOrder, pkgOrder))
    /\ detects' = detects + 1
    /\ pc' = "scanned"
    /\ UNCHANGED <<tree, config, idx, allMetadata, walkErr, data, genResult,
                   written, prev, slugIn, slugOut, parsed, aliasOut, loopCounter>>

\* Scanner.BuildTemplateData on the ScanResult
BuildTemplateData ==
    /\ pc = "scanned"
    /\ data' = TemplateDataOf(result)
    /\ pc' = "built"
    /\ UNCHANGED <<tree, config, idx, allMetadata, walkErr, result, genResult,
                   written, prev, slugIn, slugOut, parsed, aliasOut,
                   detects, loopCounter>>

\* Generate writing the file in dry-run mode as well
GenerateIgnoringDryRun ==
    /\ pc = "built"
    /\ \E renderOK \in BOOLEAN, writeOK \in BOOLEAN :
          IF config.StrictMode /\ HasErrors(data.Conflicts)
          THEN /\ genResult' = [Success |-> FALSE, Message |-> <<"strict">>,
                                Rendered |-> FALSE, BytesWritten |-> 0]
               /\ UNCHANGED written
          ELSE IF ~renderOK
          THEN /\ genResult' = [Success |-> FALSE, Message |-> <<"render">>,
                                Rendered |-> FALSE, BytesWritten |-> 0]
               /\ UNCHANGED written
          ELSE IF ~writeOK
          THEN /\ genResult' = [Success |-> FALSE, Message |-> <<"write">>,
                                Rendered |-> TRUE, BytesWritten |-> 0]
               /\ UNCHANGED written
          ELSE /\ genResult' = [Success |-> TRUE, Message |-> <<"written">>,
                                Rendered |-> TRUE, BytesWritten |-> 1]
               /\ written' = TRUE
    /\ pc' = "generated"
    /\ UNCHANGED <<tree, config, idx, allMetadata, walkErr, result, data, prev,
                   slugIn, slugOut, parsed, aliasOut,
                   detects, loopCounter>>

\* the generator: abort in strict mode on an error conflict, else render, and
\* write the file at OutputPath unless in dry-run mode; Rendered tells that
\* the template was rendered without error
Generate ==
    /\ pc = "built"
    /\ \E renderOK \in BOOLEAN, writeOK \in BOOLEAN :
          IF config.StrictMode /\ HasErrors(data.Conflicts)
          THEN /\ genResult' = [Success |-> FALSE, Message |-> <<"strict">>,
                                Rendered |-> FALSE, BytesWritten |-> 0]
               /\ UNCHANGED written
          ELSE IF ~renderOK
          THEN /\ genResult' = [Success |-> FALSE, Message |-> <<"render">>,
                                Rendered |-> FALSE, BytesWritten |-> 0]
               /\ UNCHANGED written
          ELSE IF config.DryRun
          THEN /\ genResult' = [Success |-> TRUE, Message |-> <<"dry-run">>,
                                Rendered |-> TRUE, BytesWritten |-> 0]
               /\ UNCHANGED written
          ELSE IF ~writeOK
          THEN /\ genResult' = [Success |-> FALSE, Message |-> <<"write">>,
                                Rendered |-> TRUE, BytesWritten |-> 0]
               /\ UNCHANGED written
          ELSE /\ genResult' = [Success |-> TRUE, Message |-> <<"written">>,
                                Rendered |-> TRUE, BytesWritten |-> 1]
               /\ written' = TRUE
    /\ pc' = "generated"
    /\ UNCHANGED <<tree, config, idx, allMetadata, walkErr, result, data, prev,
                   slugIn, slugOut, parsed, aliasOut,
                   detects, loopCounter>>

\* the pipeline is run again on the unchanged tree with the same scanner
Rescan ==
    /\ pc = "generated"
    /\ Len(prev) < MaxRuns - 1
    /\ prev' = Append(prev, [result |-> result, data |-> data])
    /\ pc' = "walk"
    /\ idx' = 1
    /\ allMetadata' = <<>>
    /\ walkErr' = NoError
    /\ result' = NoScanResult
    /\ data' = NoTemplateData
    /\ genResult' = NoGenerationResult
    /\ parsed' = <<>>
    /\ detects' = 0
    /\ UNCHANGED <<tree, config, written, slugIn, slugOut, aliasOut, loopCounter>>

Next ==
    \/ WalkVisit
    \/ ScanFail
    \/ ScanDetect
    \/ BuildTemplateData
    \/ Generate
    \/ Rescan

Spec == Init /\ [][Next]_vars

---------------------------------------------------------------------------
(* extractSlug as a pure function *)

SlugAlphabet == {"a", "c", "h", "s", "x", "y", "H", "S", "Y"}

CompanyResource == <<"C", "o", "m", "p", "a", "n", "y">> \o SuffixResource
BoxResource == <<"B", "o", "x">> \o SuffixResource
StatusResource == <<"S", "t", "a", "t", "u", "s">> \o SuffixResource

\* the stems of up to MaxNameLen letters, bare and followed by Resource, and
\* the names of the pluralization examples
SlugNames ==
    LET stems == UNION {[1..n -> SlugAlphabet] : n \in 0..MaxNameLen}
    IN  stems \cup {st \o SuffixResource : st \in stems}
              \cup {CompanyResource, BoxResource, UserResource, StatusResource}

SlugInit ==
    /\ slugIn \in SlugNames
    /\ slugOut = <<>>
    /\ parsed = <<>>
    /\ aliasOut = NoAlias
    /\ pc = "slug"
    /\ tree = <<RootDir>>
    /\ config = [StrictMode |-> FALSE, DryRun |-> FALSE,
                 ExcludePatterns |-> DefaultExcludePatterns]
    /\ idx = 1
    /\ allMetadata = <<>>
    /\ walkErr = NoError
    /\ result = NoScanResult
    /\ data = NoTemplateData
    /\ genResult = NoGenerationResult
    /\ written = FALSE
    /\ detects = 0
    /\ loopCounter = 0
    /\ prev = <<>>

\* a call of Scanner.extractSlug
ExtractSlug ==
    /\ pc = "slug"
    /\ slugOut' = extractSlug(slugIn)
    /\ pc' = "slugged"
    /\ UNCHANGED <<tree, config, idx, allMetadata, walkErr, result, data,
                   genResult, written, prev, slugIn, parsed, aliasOut,
                   detects, loopCounter>>

SlugNext == ExtractSlug

SlugSpec == SlugInit /\ [][SlugNext]_vars

---------------------------------------------------------------------------
(* Properties *)

\* Scan has returned
Scanned == pc \in {"scanned", "built", "generated"}

\* BuildTemplateData has returned
Built == pc \in {"built", "generated"}

\* the tree holds an entry on which the walk fails: an entry Walk could not
\* read, or a file that is handed to the parser and does not parse
WalkFails(t, cfg) ==
    \E i \in DOMAIN t :
        \/ t[i].err
        \/ /\ ~Excluded(cfg.ExcludePatterns, PathOf(t, i))
           /\ ~t[i].isDir
           /\ HasSuffix(PathOf(t, i), SuffixGo)
           /\ ~t[i].parseOK

\* the number of indices of a sequence that satisfy Test
CountOf(seq, Test(_)) == Cardinality({i \in DOMAIN seq : Test(seq[i])})

\* C1: the alias map of buildResources is injective: no two distinct
\* "package.Type" keys of auto-fixable DuplicateName conflicts have the same alias
C1_AliasMapInjective ==
    Built =>
        LET aliasMap == ResourceAliasMap(result.Conflicts)
        IN  \A k1, k2 \in DOMAIN aliasMap :
                k1 # k2 => aliasMap[k1] # aliasMap[k2]

\* C2: for every resource of the scanned set, the alias the Detector generates
\* over that set equals the alias the template-data builder generates
C2_SameAliasFunction ==
    Scanned =>
        \A i \in DOMAIN result.Resources :
            DetectorGenerateAlias(result.Resources, result.Resources[i])
                = ScannerGenerateAlias(result.Resources[i])

\* C3: a second run over the unchanged tree returns the ScanResult and the
\* TemplateData of the first run: same conflicts in the same order, same
\* aliases, same imports and resources
C3_Deterministic ==
    (Built /\ prev # <<>>) =>
        /\ result = prev[1].result
        /\ data = prev[1].data

\* C4: every type name carried by more than one scanned resource has exactly
\* one DuplicateName conflict, of severity error, listing exactly the resources
\* of that name; a type name carried by one resource has none
C4_ConflictCompleteness ==
    (Scanned /\ walkErr = NoError) =>
        \A n \in DOMAIN allMetadata :
            LET typeName == allMetadata[n].TypeName
                group == SelectSeq(allMetadata, LAMBDA r : r.TypeName = typeName)
                dups == {i \in DOMAIN result.Conflicts :
                            /\ result.Conflicts[i].Type = ConflictDuplicateName
                            /\ \E j \in DOMAIN result.Conflicts[i].Resources :
                                  result.Conflicts[i].Resources[j].TypeName = typeName}
            IN  IF Len(group) > 1
                THEN /\ Cardinality(dups) = 1
                     /\ \A i \in dups :
                           /\ result.Conflicts[i].Severity = "error"
                           /\ result.Conflicts[i].Resources = group
                ELSE dups = {}

\* C4 witness: Detect has emitted a DuplicateName conflict of three resources
\* next to a type name carried by a single resource
C4_Witness ==
    /\ pc = "scanned"
    /\ walkErr = NoError
    /\ \E i \in DOMAIN result.Conflicts :
          /\ result.Conflicts[i].Type = ConflictDuplicateName
          /\ Len(result.Conflicts[i].Resources) = 3
    /\ \E n \in DOMAIN allMetadata :
          CountOf(allMetadata, LAMBDA r : r.TypeName = allMetadata[n].TypeName) = 1

\* C5: two scanned resources of the same package and type name yield a
\* PackageConflict with AutoFix=false for the package, no conflict with
\* AutoFix=true lists them, and their ResourceInfo has Conflict=false and the
\* literal package name in Reference
C5_IntraPackageNeverAutoFixed ==
    (Built /\ walkErr = NoError) =>
        \A m, n \in DOMAIN result.Resources :
            (/\ m < n
             /\ result.Resources[m].PackageName = result.Resources[n].PackageName
             /\ result.Resources[m].TypeName = result.Resources[n].TypeName)
            =>
            /\ \E i \in DOMAIN result.Conflicts :
                  /\ result.Conflicts[i].Type = ConflictPackageConflict
                  /\ ~result.Conflicts[i].AutoFix
                  /\ \E j \in DOMAIN result.Conflicts[i].Resources :
                        result.Conflicts[i].Resources[j] = result.Resources[m]
            /\ \A i \in DOMAIN result.Conflicts :
                  result.Conflicts[i].AutoFix =>
                      \A j \in DOMAIN result.Conflicts[i].Resources :
                          /\ result.Conflicts[i].Resources[j] # result.Resources[m]
                          /\ result.Conflicts[i].Resources[j] # result.Resources[n]
            /\ \A k \in {m, n} :
                  /\ ~data.Resources[k].Conflict
                  /\ data.Resources[k].Alias = <<>>
                  /\ data.Resources[k].Reference =
                        result.Resources[k].PackageName \o <<".">>
                            \o result.Resources[k].TypeName

\* C6: in strict mode, when Detect has yielded a conflict of severity error,
\* Scan reports Success=false and the output file is not written
C6_StrictModeAbort ==
    (Scanned /\ config.StrictMode /\ HasErrors(result.Conflicts)) =>
        /\ ~result.Success
        /\ ~written

\* C6 witness: strict mode, types named Resource in packages user and shop
\* (a DuplicateName and a GenericName conflict), and the generator has run
C6_Witness ==
    /\ pc = "generated"
    /\ config.StrictMode
    /\ ~config.DryRun
    /\ ~result.Success
    /\ \E m, n \in DOMAIN result.Resources :
          /\ result.Resources[m].TypeName = SuffixResource
          /\ result.Resources[n].TypeName = SuffixResource
          /\ result.Resources[m].PackageName = PkgUser
          /\ result.Resources[n].PackageName = PkgShop
    /\ \E i, j \in DOMAIN result.Conflicts :
          /\ result.Conflicts[i].Type = ConflictDuplicateName
          /\ result.Conflicts[i].Severity = "error"
          /\ result.Conflicts[j].Type = ConflictGenericName
    /\ ~genResult.Success
    /\ ~written

C8_NoPartialResults ==
    (Scanned /\ WalkFails(tree, config)) =>
        /\ ~result.Success
        /\ result.Message # <<>>
        /\ result.Resources = <<>>
        /\ result.Conflicts = <<>>

\* C8 witness: Scan has returned after a parse failure that followed a file
\* from which resources had been extracted
C8_Witness ==
    /\ pc = "scanned"
    /\ \E i \in DOMAIN tree :
          /\ ~tree[i].err
          /\ ~tree[i].parseOK
          /\ HasSuffix(PathOf(tree, i), SuffixGo)
          /\ ~tree[i].isDir
          /\ idx = i
    /\ allMetadata # <<>>
    /\ ~result.Success

\* the name satisfies the matching heuristic: suffix Resource or a generic name
MatchesHeuristic(typeName) ==
    \/ HasSuffix(typeName, SuffixResource)
    \/ \E i \in DOMAIN genericNames : genericNames[i] = typeName

\* the names of the type declarations of the parsed files, in walk order
ParsedTypeNames(t, cfg) ==
    Flatten([i \in DOMAIN t |->
        IF /\ ~Excluded(cfg.ExcludePatterns, PathOf(t, i))
           /\ ~t[i].isDir
           /\ HasSuffix(PathOf(t, i), SuffixGo)
        THEN LET types == SelectSeq(t[i].decls, LAMBDA d : d.Tok = "type")
             IN  [j \in DOMAIN types |-> types[j].Name]
        ELSE <<>>])

\* C9: after a successful walk the records are those of the type declarations
\* whose name satisfies the matching heuristic, and of no other declaration
C9_MatchingHeuristic ==
    (pc = "walked" /\ walkErr = NoError) =>
        [i \in DOMAIN allMetadata |-> allMetadata[i].TypeName]
            = SelectSeq(ParsedTypeNames(tree, config), MatchesHeuristic)

\* the last k characters of s (all of s when it is shorter)
LastChars(s, k) == SubSeq(s, IF Len(s) > k THEN Len(s) - k + 1 ELSE 1, Len(s))

\* C10: the slug is the lower-cased name without its trailing Resource,
\* pluralized by the first rule that applies: y -> ies, s -> unchanged,
\* x, ch, sh -> es, otherwise s
C10_SlugDerivation ==
    pc = "slugged" =>
        LET n == Len(slugIn)
            stripped == IF n >= 8 /\ SubSeq(slugIn, n - 7, n) = SuffixResource
                        THEN SubSeq(slugIn, 1, n - 8)
                        ELSE slugIn
            stem == [i \in DOMAIN stripped |-> LowerChar(stripped[i])]
        IN  /\ CASE LastChars(stem, 1) = <<"y">> ->
                        slugOut = SubSeq(stem, 1, Len(stem) - 1) \o <<"i", "e", "s">>
                 [] LastChars(stem, 1) = <<"s">> ->
                        slugOut = stem
                 [] LastChars(stem, 1) = <<"x">> ->
                        slugOut = stem \o <<"e", "s">>
                 [] LastChars(stem, 2) \in {<<"c", "h">>, <<"s", "h">>} ->
                        slugOut = stem \o <<"e", "s">>
                 [] OTHER ->
                        slugOut = stem \o <<"s">>
            /\ slugIn = CompanyResource =>
                  slugOut = <<"c", "o", "m", "p", "a", "n", "i", "e", "s">>
            /\ slugIn = BoxResource => slugOut = <<"b", "o", "x", "e", "s">>
            /\ slugIn = UserResource => slugOut = <<"u", "s", "e", "r", "s">>

\* C10 witness: extractSlug has returned for a name in upper case that ends
\* in SH before the suffix Resource
C10_Witness ==
    /\ pc = "slugged"
    /\ slugIn = <<"S", "H">> \o SuffixResource
    /\ slugOut = <<"s", "h", "e", "s">>


\* C11 as stated: the slug of StatusResource is statuses
C11_StatusSlugStatuses ==
    (pc = "slugged" /\ slugIn = StatusResource) =>
        slugOut = <<"s", "t", "a", "t", "u", "s", "e", "s">>

\* C11 amended: the slug of StatusResource is status, a name that ends in s
\* being left unchanged
C11_StatusSlugStatus ==
    (pc = "slugged" /\ slugIn = StatusResource) =>
        slugOut = <<"s", "t", "a", "t", "u", "s">>

\* C11 witness: extractSlug has returned for StatusResource
C11_Witness ==
    /\ pc = "slugged"
    /\ slugIn = StatusResource
    /\ slugOut # <<>>


---------------------------------------------------------------------------
(* The pipeline on the trees of the end-to-end example *)

PkgShop2 == <<"s", "h", "o", "p", "2">>

ProductResource == <<"P", "r", "o", "d", "u", "c", "t">> \o SuffixResource

BaseProductGo == <<"p", "r", "o", "d", "u", "c", "t", ".", "g", "o">>

ShopProductFile == GoFile(BaseProductGo, PkgShop, <<TypeDecl(ProductResource)>>)

Shop2ProductFile == GoFile(BaseProductGo, PkgShop2, <<TypeDecl(ProductResource)>>)

ExamplePool ==
    { ShopProductFile,
      Shop2ProductFile,
      GoFile(BaseGo, PkgUser, <<TypeDecl(UserResource)>>),
      [GoFile(BaseGo, PkgUser, <<>>) EXCEPT !.parseOK = FALSE] }

ExampleTrees ==
    UNION {{<<RootDir>> \o t : t \in [1..n -> ExamplePool]} : n \in 0..MaxFiles}

ExampleInit ==
    /\ tree \in ExampleTrees
    /\ config \in Configs
    /\ pc = "walk"
    /\ idx = 1
    /\ allMetadata = <<>>
    /\ walkErr = NoError
    /\ result = NoScanResult
    /\ data = NoTemplateData
    /\ genResult = NoGenerationResult
    /\ written = FALSE
    /\ detects = 0
    /\ loopCounter = 0
    /\ prev = <<>>
    /\ slugIn = <<>>
    /\ slugOut = <<>>
    /\ parsed = <<>>
    /\ aliasOut = NoAlias

ExampleSpec == ExampleInit /\ [][Next]_vars

\* the tree of the example: shop/product.go, then shop2/product.go
IsExampleTree == tree = <<RootDir, ShopProductFile, Shop2ProductFile>>

ShopAlias ==
    <<"s", "h", "o", "p", "_", "p", "r", "o", "d", "u", "c", "t",
      "r", "e", "s", "o", "u", "r", "c", "e">>

Shop2Alias ==
    <<"s", "h", "o", "p", "2", "_", "p", "r", "o", "d", "u", "c", "t",
      "r", "e", "s", "o", "u", "r", "c", "e">>

\* C12: on the example tree a non-strict Scan succeeds with 2 resources, Detect
\* emits exactly one DuplicateName conflict, of severity error, proposing the
\* aliases shop_productresource and shop2_productresource, and the imports are
\* the two packages, each with NeedsAlias=true and its alias
C12_EndToEndExample ==
    (IsExampleTree /\ ~config.StrictMode /\ Built) =>
        LET dups == {i \in DOMAIN result.Conflicts :
                        result.Conflicts[i].Type = ConflictDuplicateName}
        IN  /\ result.Success
            /\ Len(result.Resources) = 2
            /\ Cardinality(dups) = 1
            /\ \A i \in dups :
                  /\ result.Conflicts[i].Severity = "error"
                  /\ [k \in DOMAIN result.Conflicts[i].Suggestion[3] |->
                         result.Conflicts[i].Suggestion[3][k][3]]
                       = <<ShopAlias, Shop2Alias>>
            /\ Len(data.Imports) = 2
            /\ data.Imports[1].Package = PkgShop
            /\ data.Imports[1].NeedsAlias
            /\ data.Imports[1].Alias = ShopAlias
            /\ data.Imports[2].Package = PkgShop2
            /\ data.Imports[2].NeedsAlias
            /\ data.Imports[2].Alias = Shop2Alias

\* C12 witness: the non-strict pipeline has run on the example tree and the
\* generator has written the file
C12_Witness ==
    /\ IsExampleTree
    /\ ~config.StrictMode
    /\ pc = "generated"
    /\ genResult.Success
    /\ written
    /\ Len(data.Imports) = 2


\* the position of a conflict type in the order of the four passes
PassOf(type) ==
    CHOOSE k \in 1..4 :
        <<ConflictDuplicateName, ConflictGenericName,
          ConflictNamingConvention, ConflictPackageConflict>>[k] = type

\* C13: in the conflict list every DuplicateName conflict precedes every
\* GenericName conflict, which precedes every NamingConvention conflict, which
\* precedes every PackageConflict conflict
C13_PassOrder ==
    Scanned =>
        \A i, j \in DOMAIN result.Conflicts :
            i < j => PassOf(result.Conflicts[i].Type) <= PassOf(result.Conflicts[j].Type)

\* C13 witness: Detect has returned conflicts of the four types
C13_Witness ==
    /\ pc = "scanned"
    /\ \A type \in {ConflictDuplicateName, ConflictGenericName,
                    ConflictNamingConvention, ConflictPackageConflict} :
          \E i \in DOMAIN result.Conflicts : result.Conflicts[i].Type = type


\* C14: TemplateData.Resources has one ResourceInfo per scanned resource, in
\* the same order, with Source the FilePath of the resource, and Count is the
\* number of scanned resources
C14_OneResourceInfoPerResource ==
    Built =>
        /\ Len(data.Resources) = Len(result.Resources)
        /\ data.Count = Len(result.Resources)
        /\ \A i \in DOMAIN result.Resources :
              /\ i \in DOMAIN data.Resources
              /\ data.Resources[i].Source = result.Resources[i].FilePath
              /\ HasSuffix(data.Resources[i].Reference,
                           <<".">> \o result.Resources[i].TypeName)

\* C14 witness: the TemplateData is built from resources of two files, two of
\* which have the same package and type name
C14_Witness ==
    /\ pc = "built"
    /\ \E m, n \in DOMAIN result.Resources :
          /\ m < n
          /\ result.Resources[m].PackageName = result.Resources[n].PackageName
          /\ result.Resources[m].TypeName = result.Resources[n].TypeName
    /\ \E m, n \in DOMAIN result.Resources :
          result.Resources[m].FilePath # result.Resources[n].FilePath

\* the index at which a package name first occurs among the resources
FirstSeen(resources, pkg) ==
    CHOOSE i \in DOMAIN resources :
        /\ resources[i].PackageName = pkg
        /\ \A j \in 1..(i - 1) : resources[j].PackageName # pkg

\* C15: the imports are one per distinct package name of the resources, no
\* two with the same Path, in the order in which the packages are first seen
C15_OneImportPerPackage ==
    Built =>
        LET pkgs == {result.Resources[i].PackageName : i \in DOMAIN result.Resources}
        IN  /\ {data.Imports[k].Package : k \in DOMAIN data.Imports} = pkgs
            /\ Len(data.Imports) = Cardinality(pkgs)
            /\ \A k, l \in DOMAIN data.Imports :
                  k < l =>
                    /\ data.Imports[k].Path # data.Imports[l].Path
                    /\ FirstSeen(result.Resources, data.Imports[k].Package)
                          < FirstSeen(result.Resources, data.Imports[l].Package)

\* C15 witness: two imports are built from more than two resources
C15_Witness ==
    /\ pc = "built"
    /\ Len(data.Imports) = 2
    /\ Len(result.Resources) > 2

\* the resource is listed in a DuplicateName conflict with AutoFix=true
ListedAutoFixable(conflicts, r) ==
    \E i \in DOMAIN conflicts :
        /\ conflicts[i].Type = ConflictDuplicateName
        /\ conflicts[i].AutoFix
        /\ \E j \in DOMAIN conflicts[i].Resources :
              /\ conflicts[i].Resources[j].PackageName = r.PackageName
              /\ conflicts[i].Resources[j].TypeName = r.TypeName

\* C16: a ResourceInfo has Conflict=true and Reference alias.Type exactly when
\* its resource is listed in a DuplicateName conflict with AutoFix=true;
\* otherwise Conflict=false, Alias is empty and Reference is package.Type
C16_ConflictFlagAndReference ==
    Built =>
        \A i \in DOMAIN result.Resources :
            LET r == result.Resources[i]
                info == data.Resources[i]
            IN  IF ListedAutoFixable(result.Conflicts, r)
                THEN /\ info.Conflict
                     /\ info.Alias # <<>>
                     /\ info.Reference = info.Alias \o <<".">> \o r.TypeName
                ELSE /\ ~info.Conflict
                     /\ info.Alias = <<>>
                     /\ info.Reference = r.PackageName \o <<".">> \o r.TypeName

\* C16 witness: the TemplateData holds a resource with Conflict=true and a
\* resource with Conflict=false
C16_Witness ==
    /\ pc = "built"
    /\ \E m, n \in DOMAIN data.Resources :
          /\ data.Resources[m].Conflict
          /\ ~data.Resources[n].Conflict

\* C17: Warnings is the sequence of the messages of the conflicts of severity
\* warning or info, in conflict order, and holds the message of no conflict of
\* severity error
C17_WarningsAreWarningAndInfo ==
    Built =>
        LET advisory == SelectSeq(result.Conflicts,
                                  LAMBDA c : c.Severity \in {"warning", "info"})
        IN  /\ data.Warnings = [k \in DOMAIN advisory |-> advisory[k].Message]
            /\ \A i \in DOMAIN result.Conflicts :
                  result.Conflicts[i].Severity = "error" =>
                      \A k \in DOMAIN data.Warnings :
                          data.Warnings[k] # result.Conflicts[i].Message

\* C17 witness: the TemplateData is built from conflicts of severity error,
\* warning and info
C17_Witness ==
    /\ pc = "built"
    /\ \A severity \in {"error", "warning", "info"} :
          \E i \in DOMAIN result.Conflicts : result.Conflicts[i].Severity = severity
    /\ Len(data.Warnings) >= 2


\* C18: in dry-run mode the file at OutputPath is never created or modified,
\* whatever the severities of the conflicts, and the GenerationResult reports
\* Success=true whenever the template was rendered without error
C18_DryRunPurity ==
    config.DryRun =>
        /\ ~written
        /\ (pc = "generated" /\ genResult.Rendered) => genResult.Success

\* C18 witness: the generator has run in dry-run mode on conflicts of severity
\* error and has rendered
C18_Witness ==
    /\ pc = "generated"
    /\ config.DryRun
    /\ HasErrors(data.Conflicts)
    /\ genResult.Rendered
    /\ genResult.Success
    /\ ~written


---------------------------------------------------------------------------
(* The walk under several lists of exclusion patterns *)

PatternLists ==
    { DefaultExcludePatterns,
      <<>>,
      << <<"r", "*">> >>,
      << <<"*", ".", "t", "x", "t">>, <<"v", "*">> >> }

WalkConfigs ==
    [StrictMode : {FALSE}, DryRun : {FALSE}, ExcludePatterns : PatternLists]

WalkInit ==
    /\ tree \in Trees
    /\ config \in WalkConfigs
    /\ pc = "walk"
    /\ idx = 1
    /\ allMetadata = <<>>
    /\ walkErr = NoError
    /\ result = NoScanResult
    /\ data = NoTemplateData
    /\ genResult = NoGenerationResult
    /\ written = FALSE
    /\ detects = 0
    /\ loopCounter = 0
    /\ prev = <<>>
    /\ slugIn = <<>>
    /\ slugOut = <<>>
    /\ parsed = <<>>
    /\ aliasOut = NoAlias

WalkNext ==
    \/ WalkVisit
    \/ ScanFail
    \/ ScanDetect

WalkSpec == WalkInit /\ [][WalkNext]_vars

\* the entry is not a directory, its path ends in .go and its own base name
\* matches none of the exclusion patterns
Eligible(t, cfg, i) ==
    /\ ~t[i].isDir
    /\ HasSuffix(PathOf(t, i), SuffixGo)
    /\ \A k \in DOMAIN cfg.ExcludePatterns : ~Match(cfg.ExcludePatterns[k], t[i].base)

\* the walk reaches the entry: Walk reports no error for it or for an earlier
\* entry, and no earlier eligible file fails to parse
Reached(t, cfg, i) ==
    /\ \A j \in 1..i : ~t[j].err
    /\ \A j \in 1..(i - 1) : Eligible(t, cfg, j) => t[j].parseOK

WasParsed(i) == \E k \in DOMAIN parsed : parsed[k] = i

\* with the default patterns no record comes from a _test.go or _gen.go file
NoTestOrGenResource ==
    config.ExcludePatterns = DefaultExcludePatterns =>
        \A n \in DOMAIN allMetadata :
            /\ ~HasSuffix(allMetadata[n].FilePath, <<"_", "t", "e", "s", "t">> \o SuffixGo)
            /\ ~HasSuffix(allMetadata[n].FilePath, <<"_", "g", "e", "n">> \o SuffixGo)

\* C19 as stated: when Scan has returned, an entry has been parsed if and only
\* if it is not a directory, its path ends in .go and its base name matches no
\* exclusion pattern; the default patterns keep out _test.go and _gen.go files
C19_ParsedIffEligible ==
    /\ Scanned => \A i \in DOMAIN tree : WasParsed(i) <=> Eligible(tree, config, i)
    /\ NoTestOrGenResource

\* C19 amended: when Scan has returned, an entry has been parsed if and only
\* if the walk reached it, it is not a directory, its path ends in .go and its
\* base name matches no exclusion pattern; the default patterns keep out
\* _test.go and _gen.go files
C19_ParsedIffReachedAndEligible ==
    /\ Scanned =>
          \A i \in DOMAIN tree :
              WasParsed(i) <=> (Reached(tree, config, i) /\ Eligible(tree, config, i))
    /\ NoTestOrGenResource

\* C19 witness: Scan has returned after parsing a file and passing over a
\* _test.go file that declares a resource
C19_Witness ==
    /\ pc = "scanned"
    /\ config.ExcludePatterns = DefaultExcludePatterns
    /\ parsed # <<>>
    /\ \E j \in DOMAIN tree :
          /\ HasSuffix(tree[j].base, <<"_", "t", "e", "s", "t">> \o SuffixGo)
          /\ tree[j].decls # <<>>
          /\ ~WasParsed(j)


---------------------------------------------------------------------------
(* Detector.generateAlias over sets of resources *)

AliasPackages == { <<"p">>, <<"P">> }

AliasTypes == { <<"T">>, <<"t">>, <<"T", "_", "1">> }

AliasPool ==
    { ResourceMetadata(ty, pk, RootPath \o <<"/">> \o BaseGo, extractSlug(ty)) :
        ty \in AliasTypes, pk \in AliasPackages }

AliasInit ==
    /\ allMetadata \in UNION {[1..n -> AliasPool] : n \in 1..MaxResources}
    /\ aliasOut = NoAlias
    /\ pc = "alias"
    /\ tree = <<RootDir>>
    /\ config = [StrictMode |-> FALSE, DryRun |-> FALSE,
                 ExcludePatterns |-> DefaultExcludePatterns]
    /\ idx = 1
    /\ walkErr = NoError
    /\ result = NoScanResult
    /\ data = NoTemplateData
    /\ genResult = NoGenerationResult
    /\ written = FALSE
    /\ detects = 0
    /\ loopCounter = 0
    /\ prev = <<>>
    /\ slugIn = <<>>
    /\ slugOut = <<>>
    /\ parsed = <<>>

\* a call of Detector.generateAlias on a resource of the detector's set
GenerateAlias ==
    /\ pc = "alias"
    /\ \E i \in DOMAIN allMetadata :
          aliasOut' = [resource |-> i,
                       alias |-> DetectorGenerateAlias(allMetadata, allMetadata[i])]
    /\ pc' = "aliased"
    /\ UNCHANGED <<tree, config, idx, allMetadata, walkErr, result, data,
                   genResult, written, prev, slugIn, slugOut, parsed,
                   detects, loopCounter>>

AliasNext == GenerateAlias

AliasSpec == AliasInit /\ [][AliasNext]_vars

\* lower(PackageName) + "_" + lower(TypeName)
LoweredAlias(r) == ToLower(r.PackageName) \o <<"_">> \o ToLower(r.TypeName)

\* some resource other than r by (PackageName, TypeName) has the string as
\* its lower(PackageName) + "_" + lower(TypeName)
LoweredAliasTaken(resources, str, r) ==
    \E i \in DOMAIN resources :
        /\ <<resources[i].PackageName, resources[i].TypeName>>
              # <<r.PackageName, r.TypeName>>
        /\ LoweredAlias(resources[i]) = str

\* the alias the stated algorithm gives: the lowered string when it is free,
\* else the lowered string followed by _k for the smallest free k >= 1
StatedAlias(resources, r) ==
    LET base == LoweredAlias(r)
        free == {k \in 1..(Len(resources) + 1) :
                    ~LoweredAliasTaken(resources, base \o <<"_">> \o Itoa(k), r)}
        least == CHOOSE k \in free : \A m \in free : k <= m
    IN  IF ~LoweredAliasTaken(resources, base, r)
        THEN base
        ELSE base \o <<"_">> \o Itoa(least)

\* C20: the alias Detector.generateAlias returns for a resource is
\* lower(PackageName) + "_" + lower(TypeName) when no other resource has that
\* string, else that string followed by _k for the smallest k >= 1 that no
\* other resource has
C20_AliasAlgorithm ==
    pc = "aliased" =>
        aliasOut.alias = StatedAlias(allMetadata, allMetadata[aliasOut.resource])


---------------------------------------------------------------------------
(* Properties of the Detector's aliases and of the builder's frame *)

\* the <<package, type, alias, type>> entries that the DuplicateName conflicts
\* append to their Suggestion
ProposedAliases(conflicts) ==
    UNION { {conflicts[i].Suggestion[3][j] : j \in DOMAIN conflicts[i].Suggestion[3]} :
              i \in {n \in DOMAIN conflicts : conflicts[n].Type = ConflictDuplicateName} }

\* C21: the aliases the Detector proposes in the DuplicateName conflicts are
\* injective: two listed resources that differ in (PackageName, TypeName)
\* never get the same alias, also when the type names of one package differ
\* only in letter case
C21_DetectorAliasesInjective ==
    Scanned =>
        \A p1, p2 \in ProposedAliases(result.Conflicts) :
            <<p1[1], p1[2]>> # <<p2[1], p2[2]>> => p1[3] # p2[3]


---------------------------------------------------------------------------
(* BuildTemplateData over ScanResults with conflicts of every type and flag *)

BuildPool ==
    { ResourceMetadata(UserResource, PkgUser, RootPath \o <<"/">> \o BaseGo,
                       extractSlug(UserResource)),
      ResourceMetadata(UserResource, PkgShop, RootPath \o <<"/">> \o BaseGo,
                       extractSlug(UserResource)),
      ResourceMetadata(Helper, PkgUser, RootPath \o <<"/">> \o BaseGo,
                       extractSlug(Helper)) }

BuildResourceLists == UNION {[1..n -> BuildPool] : n \in 1..2}

\* the conflicts over a resource list: every type and AutoFix flag, listing
\* the first resource or all of them
BuildConflicts(resources) ==
    { [Type |-> t,
       Severity |-> IF t \in {ConflictDuplicateName, ConflictPackageConflict}
                    THEN "error"
                    ELSE IF t = ConflictGenericName THEN "warning" ELSE "info",
       Message |-> <<"conflict">>,
       Suggestion |-> <<>>,
       Resources |-> rs,
       AutoFix |-> fix] :
        t \in ConflictDuplicateName..ConflictPackageConflict,
        fix \in BOOLEAN,
        rs \in {resources, <<resources[1]>>} }

\* the ScanResults over a resource list, with up to MaxConflicts conflicts
BuildResults(resources) ==
    { [Success |-> TRUE, Message |-> <<"Scanned %d resources", Len(resources)>>,
       Resources |-> resources, Conflicts |-> cs] :
        cs \in UNION {[1..n -> BuildConflicts(resources)] : n \in 0..MaxConflicts} }

BuildInit ==
    /\ \E resources \in BuildResourceLists : result \in BuildResults(resources)
    /\ allMetadata = result.Resources
    /\ pc = "scanned"
    /\ tree = <<RootDir>>
    /\ config = [StrictMode |-> FALSE, DryRun |-> FALSE,
                 ExcludePatterns |-> DefaultExcludePatterns]
    /\ idx = 1
    /\ walkErr = NoError
    /\ data = NoTemplateData
    /\ genResult = NoGenerationResult
    /\ written = FALSE
    /\ detects = 0
    /\ loopCounter = 0
    /\ prev = <<>>
    /\ slugIn = <<>>
    /\ slugOut = <<>>
    /\ parsed = <<>>
    /\ aliasOut = NoAlias

BuildNext == BuildTemplateData

BuildSpec == BuildInit /\ [][BuildNext]_vars

\* the conflicts with Type=DuplicateName and AutoFix=true, in order
AutoFixDuplicates(conflicts) ==
    SelectSeq(conflicts, LAMBDA c : c.Type = ConflictDuplicateName /\ c.AutoFix)

\* C22: the Imports and Resources of the TemplateData are those built from the
\* conflicts with Type=DuplicateName and AutoFix=true alone: conflicts of the
\* other types, and DuplicateName conflicts with AutoFix=false, change neither
C22_OnlyAutoFixDuplicatesAlias ==
    Built =>
        /\ data.Imports
              = buildImports(result.Resources, AutoFixDuplicates(result.Conflicts))
        /\ data.Resources
              = buildResources(result.Resources, AutoFixDuplicates(result.Conflicts))

\* C22 witness: a TemplateData built from a ScanResult that holds an
\* auto-fixable DuplicateName conflict and an AutoFix=true conflict of another
\* type listing a resource the first does not list
C22_Witness ==
    /\ pc = "built"
    /\ \E i, j \in DOMAIN result.Conflicts :
          /\ result.Conflicts[i].Type = ConflictDuplicateName
          /\ result.Conflicts[i].AutoFix
          /\ result.Conflicts[j].Type # ConflictDuplicateName
          /\ result.Conflicts[j].AutoFix
          /\ Len(result.Conflicts[j].Resources) > Len(result.Conflicts[i].Resources)
    /\ \E n \in DOMAIN data.Resources : data.Resources[n].Conflict
    /\ \E n \in DOMAIN data.Resources : ~data.Resources[n].Conflict


\* one call of Scanner.Scan, under every configuration
ScanSpec == Init /\ [][WalkNext]_vars

\* C23: within one Scan, Detect is called at most once, and only when the walk
\* is over and every non-excluded file has been parsed successfully; no file
\* is parsed twice; after a file fails to parse no later file is parsed and
\* Detect is never called
C23_DetectAfterCompleteParse ==
    /\ detects <= 1
    /\ detects = 1 =>
          /\ Scanned
          /\ \A i \in DOMAIN tree :
                Eligible(tree, config, i) => (WasParsed(i) /\ tree[i].parseOK)
    /\ \A k1, k2 \in DOMAIN parsed : parsed[k1] = parsed[k2] => k1 = k2
    /\ \A k \in DOMAIN parsed :
          ~tree[parsed[k]].parseOK => (k = Len(parsed) /\ detects = 0)

\* C23 witness: Detect has been called after two files were parsed
C23_Witness ==
    /\ pc = "scanned"
    /\ detects = 1
    /\ Len(parsed) = 2


\* the resources of the package hold a repeated TypeName
RepeatsTypeName(resources, pkgName) ==
    \E m, n \in DOMAIN resources :
        /\ m < n
        /\ resources[m].PackageName = pkgName
        /\ resources[n].PackageName = pkgName
        /\ resources[m].TypeName = resources[n].TypeName

\* the indices of the PackageConflicts emitted for the package
PackageConflictsOf(conflicts, pkgName) ==
    {i \in DOMAIN conflicts :
        /\ conflicts[i].Type = ConflictPackageConflict
        /\ conflicts[i].Message[2] = pkgName}

\* C24: a package of the scanned resources has a PackageConflict exactly when
\* its resources hold a repeated TypeName, and then exactly one, of severity
\* error, with AutoFix=false and Resources all the resources of the package;
\* every PackageConflict is for a package of the scanned resources
C24_PackageConflictIffRepeat ==
    (Scanned /\ walkErr = NoError) =>
        /\ \A n \in DOMAIN allMetadata :
              LET pkgName == allMetadata[n].PackageName
                  emitted == PackageConflictsOf(result.Conflicts, pkgName)
              IN  IF RepeatsTypeName(allMetadata, pkgName)
                  THEN /\ Cardinality(emitted) = 1
                       /\ \A i \in emitted :
                             /\ result.Conflicts[i].Severity = "error"
                             /\ ~result.Conflicts[i].AutoFix
                             /\ result.Conflicts[i].Resources
                                  = SelectSeq(allMetadata,
                                              LAMBDA r : r.PackageName = pkgName)
                  ELSE emitted = {}
        /\ \A i \in DOMAIN result.Conflicts :
              result.Conflicts[i].Type = ConflictPackageConflict =>
                  \E n \in DOMAIN allMetadata :
                      allMetadata[n].PackageName = result.Conflicts[i].Message[2]

\* C24 witness: a scan of one package that repeats a type name and of another
\* package that holds two distinct type names
C24_Witness ==
    /\ pc = "scanned"
    /\ walkErr = NoError
    /\ \E m, n \in DOMAIN allMetadata :
          /\ RepeatsTypeName(allMetadata, allMetadata[m].PackageName)
          /\ ~RepeatsTypeName(allMetadata, allMetadata[n].PackageName)
          /\ PackageConflictsOf(result.Conflicts, allMetadata[m].PackageName) # {}
          /\ CountOf(allMetadata,
                     LAMBDA r : r.PackageName = allMetadata[n].PackageName) = 2


\* C25: in every DuplicateName conflict the Resources are the scanned
\* resources of that type name in scan order, and the aliases appended to the
\* Suggestion are one per listed resource, in the order of Resources
C25_GroupOrderIsScanOrder ==
    (Scanned /\ walkErr = NoError) =>
        \A i \in DOMAIN result.Conflicts :
            result.Conflicts[i].Type = ConflictDuplicateName =>
                LET members == result.Conflicts[i].Resources
                    aliases == result.Conflicts[i].Suggestion[3]
                IN  /\ members = SelectSeq(allMetadata,
                                           LAMBDA r : r.TypeName = members[1].TypeName)
                    /\ Len(aliases) = Len(members)
                    /\ \A j \in DOMAIN members :
                          aliases[j] = <<members[j].PackageName, members[j].TypeName,
                                         DetectorGenerateAlias(allMetadata, members[j]),
                                         members[j].TypeName>>

\* C25 witness: a DuplicateName conflict listing resources of two packages
C25_Witness ==
    /\ pc = "scanned"
    /\ \E i \in DOMAIN result.Conflicts :
          /\ result.Conflicts[i].Type = ConflictDuplicateName
          /\ result.Conflicts[i].Resources[1].PackageName
                # result.Conflicts[i].Resources[2].PackageName
          /\ result.Conflicts[i].Suggestion[3][1][3]
                # result.Conflicts[i].Suggestion[3][2][3]


\* the name under which the imports bring the package in: the Alias of its
\* ImportInfo when NeedsAlias, else the package name
ImportedAs(imports, pkgName) ==
    LET i == CHOOSE k \in DOMAIN imports : imports[k].Package = pkgName
    IN  IF imports[i].NeedsAlias THEN imports[i].Alias ELSE pkgName

\* C26: in every TemplateData the Reference of a ResourceInfo is the name its
\* package is imported as, a dot, and the type name
C26_ReferenceUsesImportName ==
    Built =>
        \A n \in DOMAIN data.Resources :
            data.Resources[n].Reference
                = ImportedAs(data.Imports, result.Resources[n].PackageName)
                      \o <<".">> \o result.Resources[n].TypeName


\* C27: for every PackageConflict of a result, every two scanned resources of
\* that package with the same type name are listed together in a DuplicateName
\* conflict with AutoFix=true of the same result; and the result has an error
\* exactly when two scanned resources carry the same type name
C27_PackageConflictImpliesDuplicate ==
    (Scanned /\ walkErr = NoError) =>
        /\ \A i \in DOMAIN result.Conflicts :
              result.Conflicts[i].Type = ConflictPackageConflict =>
                  \A m, n \in DOMAIN allMetadata :
                      (/\ m < n
                       /\ allMetadata[m].PackageName = result.Conflicts[i].Message[2]
                       /\ allMetadata[n].PackageName = result.Conflicts[i].Message[2]
                       /\ allMetadata[m].TypeName = allMetadata[n].TypeName)
                      =>
                      \E j \in DOMAIN result.Conflicts :
                          /\ result.Conflicts[j].Type = ConflictDuplicateName
                          /\ result.Conflicts[j].AutoFix
                          /\ Contains(result.Conflicts[j].Resources, allMetadata[m])
                          /\ Contains(result.Conflicts[j].Resources, allMetadata[n])
        /\ HasErrors(result.Conflicts)
              <=> \E m, n \in DOMAIN allMetadata :
                      m < n /\ allMetadata[m].TypeName = allMetadata[n].TypeName

\* C27 witness: a result holding a PackageConflict and a conflict that is not
\* an error
C27_Witness ==
    /\ pc = "scanned"
    /\ walkErr = NoError
    /\ \E i, j \in DOMAIN result.Conflicts :
          /\ result.Conflicts[i].Type = ConflictPackageConflict
          /\ result.Conflicts[j].Severity # "error"


---------------------------------------------------------------------------
(* Detector.generateAlias step by step *)

\* Detector.generateAlias up to the loop: the unsuffixed alias is returned
\* when it is unique, else the loop is entered with counter 1
GenerateAliasBegin ==
    /\ pc = "alias"
    /\ \E i \in DOMAIN allMetadata :
          LET alias == BaseAlias(allMetadata[i])
          IN  /\ aliasOut' = [resource |-> i, alias |-> alias]
              /\ IF DetectorIsAliasUnique(allMetadata, alias, allMetadata[i])
                 THEN /\ pc' = "aliased"
                      /\ UNCHANGED loopCounter
                 ELSE /\ pc' = "aliasloop"
                      /\ loopCounter' = 1
    /\ UNCHANGED <<tree, config, idx, allMetadata, walkErr, result, data,
                   genResult, written, prev, slugIn, slugOut, parsed, detects>>

\* GenerateAliasTry leaving the counter as it is when the candidate is taken
GenerateAliasTryKeepCounter ==
    /\ pc = "aliasloop"
    /\ loopCounter <= MaxResources + 1
    /\ LET resource == allMetadata[aliasOut.resource]
           candidate == BaseAlias(resource) \o <<"_">> \o Itoa(loopCounter)
       IN  IF DetectorIsAliasUnique(allMetadata, candidate, resource)
           THEN /\ aliasOut' = [aliasOut EXCEPT !.alias = candidate]
                /\ pc' = "aliased"
                /\ UNCHANGED loopCounter
           ELSE UNCHANGED <<aliasOut, pc, loopCounter>>
    /\ UNCHANGED <<tree, config, idx, allMetadata, walkErr, result, data,
                   genResult, written, prev, slugIn, slugOut, parsed, detects>>

\* one iteration of the for loop of Detector.generateAlias
GenerateAliasTry ==
    /\ pc = "aliasloop"
    /\ loopCounter <= MaxResources + 1
    /\ LET resource == allMetadata[aliasOut.resource]
           candidate == BaseAlias(resource) \o <<"_">> \o Itoa(loopCounter)
       IN  IF DetectorIsAliasUnique(allMetadata, candidate, resource)
           THEN /\ aliasOut' = [aliasOut EXCEPT !.alias = candidate]
                /\ pc' = "aliased"
                /\ UNCHANGED loopCounter
           ELSE /\ loopCounter' = loopCounter + 1
                /\ UNCHANGED <<aliasOut, pc>>
    /\ UNCHANGED <<tree, config, idx, allMetadata, walkErr, result, data,
                   genResult, written, prev, slugIn, slugOut, parsed, detects>>

AliasLoopNext ==
    \/ GenerateAliasBegin
    \/ GenerateAliasTry

\* the loop of a call keeps running until it returns
AliasLoopSpec == AliasInit /\ [][AliasLoopNext]_vars /\ WF_vars(AliasLoopNext)

\* C28: a call of Detector.generateAlias returns, its loop having tried at
\* most as many candidates as there are resources, with the alias of
\* DetectorGenerateAlias
C28_GenerateAliasTerminates ==
    /\ [](loopCounter <= Len(allMetadata))
    /\ [](pc = "aliased" =>
             aliasOut.alias
                = DetectorGenerateAlias(allMetadata, allMetadata[aliasOut.resource]))
    /\ <>(pc = "aliased")

\* C28 witness: a call has returned after its loop found the candidate with
\* suffix _1 taken by another resource
C28_Witness ==
    /\ pc = "aliased"
    /\ loopCounter = 2


\* the resources of the files this Scan parsed, in parse order
ParsedResources ==
    Flatten([k \in 1..Len(parsed) |->
                scanFile(PathOf(tree, parsed[k]), tree[parsed[k]])])

\* C29: a Scan that fails although its walk succeeded has StrictMode set, and
\* its ScanResult carries every resource of the parsed files and the conflicts
\* of a Detect over them: the Resources and Conflicts of the ScanResult the
\* scan returns with StrictMode=false, from which it differs in Success and
\* Message
C29_StrictFailureKeepsLists ==
    (Scanned /\ walkErr = NoError /\ ~result.Success) =>
        /\ config.StrictMode
        /\ result.Resources = ParsedResources
        /\ \E typeOrder \in Orders(DOMAIN GroupBy(ParsedResources, "TypeName")),
              pkgOrder \in Orders(DOMAIN GroupBy(ParsedResources, "PackageName")) :
              LET lenient ==
                      ScanResultOf([config EXCEPT !.StrictMode = FALSE],
                                   ParsedResources,
                                   Detect(ParsedResources, typeOrder, pkgOrder))
              IN  /\ lenient.Success
                  /\ lenient.Message # result.Message
                  /\ lenient.Resources = result.Resources
                  /\ lenient.Conflicts = result.Conflicts

\* C29 witness: a Scan stopped by strict mode that returns three resources
\* and conflicts of more than one severity
C29_Witness ==
    /\ pc = "scanned"
    /\ walkErr = NoError
    /\ ~result.Success
    /\ Len(result.Resources) = 3
    /\ \E i \in DOMAIN result.Conflicts : result.Conflicts[i].Severity # "error"


---------------------------------------------------------------------------
(* Two scanners whose configurations differ in AutoFix, Verbose and DryRun *)

\* the configurations with every ScannerConfig flag
FlagConfigs ==
    [StrictMode : BOOLEAN, AutoFix : BOOLEAN, Verbose : BOOLEAN,
     DryRun : BOOLEAN, ExcludePatterns : {DefaultExcludePatterns}]

\* the first scanner has the AutoFix, Verbose and DryRun of DefaultConfig
FlagInit ==
    /\ tree \in Trees
    /\ config \in {c \in FlagConfigs : c.AutoFix /\ ~c.Verbose /\ ~c.DryRun}
    /\ pc = "walk"
    /\ idx = 1
    /\ allMetadata = <<>>
    /\ walkErr = NoError
    /\ result = NoScanResult
    /\ data = NoTemplateData
    /\ genResult = NoGenerationResult
    /\ written = FALSE
    /\ detects = 0
    /\ loopCounter = 0
    /\ prev = <<>>
    /\ slugIn = <<>>
    /\ slugOut = <<>>
    /\ parsed = <<>>
    /\ aliasOut = NoAlias

\* a second scanner is made for the same tree, with a configuration that
\* differs from the first in AutoFix, Verbose or DryRun only
NewWithConfig ==
    /\ pc = "built"
    /\ prev = <<>>
    /\ config' \in {c \in FlagConfigs :
                       /\ c.StrictMode = config.StrictMode
                       /\ c.ExcludePatterns = config.ExcludePatterns
                       /\ c # config}
    /\ prev' = Append(prev, [result |-> result, data |-> data])
    /\ pc' = "walk"
    /\ idx' = 1
    /\ allMetadata' = <<>>
    /\ walkErr' = NoError
    /\ result' = NoScanResult
    /\ data' = NoTemplateData
    /\ parsed' = <<>>
    /\ detects' = 0
    /\ UNCHANGED <<tree, genResult, written, slugIn, slugOut, aliasOut,
                   loopCounter>>

FlagNext ==
    \/ WalkVisit
    \/ ScanFail
    \/ ScanDetect
    \/ BuildTemplateData
    \/ NewWithConfig

FlagSpec == FlagInit /\ [][FlagNext]_vars

\* the Resources and Success of the two scanners are equal, and the
\* ScanResult and TemplateData of each are among those the other produces over
\* the tree; after a failed walk the two outcomes are equal
FlagsOutcomesAgree ==
    (pc = "built" /\ prev # <<>>) =>
        /\ result.Resources = prev[1].result.Resources
        /\ result.Success = prev[1].result.Success
        /\ IF walkErr # NoError
           THEN /\ result = prev[1].result
                /\ data = prev[1].data
           ELSE /\ \E typeOrder \in Orders(DOMAIN GroupBy(allMetadata, "TypeName")),
                      pkgOrder \in Orders(DOMAIN GroupBy(allMetadata, "PackageName")) :
                      LET second == ScanResultOf(config, allMetadata,
                                                 Detect(allMetadata, typeOrder, pkgOrder))
                      IN  /\ second = prev[1].result
                          /\ TemplateDataOf(second) = prev[1].data
                /\ LET first == prev[1].result.Resources
                       firstConfig == [config EXCEPT !.AutoFix = TRUE,
                                                     !.Verbose = FALSE,
                                                     !.DryRun = FALSE]
                   IN  \E typeOrder \in Orders(DOMAIN GroupBy(first, "TypeName")),
                          pkgOrder \in Orders(DOMAIN GroupBy(first, "PackageName")) :
                          LET other == ScanResultOf(firstConfig, first,
                                                    Detect(first, typeOrder, pkgOrder))
                          IN  /\ other = result
                              /\ TemplateDataOf(other) = data

\* C30: the second scanner, whose configuration differs from the first in
\* AutoFix, Verbose or DryRun only, returns the Resources, Conflicts and
\* Success of the first and builds the Imports, Resources and Warnings of the
\* first
C30_FlagsDoNotInfluence ==
    (pc = "built" /\ prev # <<>>) =>
        /\ result.Resources = prev[1].result.Resources
        /\ result.Conflicts = prev[1].result.Conflicts
        /\ result.Success = prev[1].result.Success
        /\ data.Imports = prev[1].data.Imports
        /\ data.Resources = prev[1].data.Resources
        /\ data.Warnings = prev[1].data.Warnings

=============================================================================
